---- MODULE Spec2Model ----
(***************************************************************************)
(* Model of transcribe.py: a batch transcriber that discovers audio files, *)
(* transcribes them one by one while a reporter thread draws a progress    *)
(* bar, writes <stem>.txt, and moves the original to historical/.          *)
(*                                                                         *)
(* File names and texts are sequences of one-character strings.  Floats    *)
(* are exact rationals <<num, den>> with den > 0, kept in lowest terms.     *)
(***************************************************************************)
EXTENDS Integers, Sequences, FiniteSets, TLC

VARIABLES
    run,          \* number of the current invocation of main()
    pc,           \* position of the main thread in main()
    audioDir,     \* AUDIO_DIR: file name -> file
    outDir,       \* OUTPUT_DIR: file name -> text
    histDir,      \* HISTORICAL_DIR: file name -> file
    placed,       \* history: every <<name, file>> ever moved into HISTORICAL_DIR
    audio_files,  \* main's sorted list of discovered names
    found,        \* history: the discovered files as they were at discovery
    i,            \* main's loop index (1-based, as enumerate(audio_files, 1))
    modelLoaded,  \* whisper.load_model has been called in this run
    notes,        \* call sites of notify() reached in this run, in order
    error,        \* the exception that ended this run, "none" if none
    est,          \* estimated_process_time, from line 140 until the thread has it
    reporter,     \* per file index: the progress thread started for it
    stop,         \* per file index: the file's stop_event flag
    setCount,     \* history: per file index, number of unset->set changes
    inflight,     \* model.transcribe calls entered and not yet left
    result,       \* result["text"], from line 154 until line 164 has read it
    texts,        \* history: per file index, the text written for it (line 164)
    results,      \* main's results list
    wrote,        \* history: indices whose output file was written in this run
    moved,        \* history: indices whose source was moved in this run
    screen,       \* the last line written to standard output
    probe         \* a single get_audio_duration call: input, outcome, return

dirs == <<audioDir, outDir, histDir, placed>>

threads == <<reporter, stop, setCount>>

mainVars == <<run, pc, dirs, audio_files, found, i, modelLoaded, notes, error,
              est, threads, inflight, result, texts, results, wrote, moved,
              screen>>

vars == <<mainVars, probe>>

----------------------------------------------------------------------------
(* Bounds of the model *)

MaxRuns == 3         \* invocations of main() in a behaviour
MaxTicks == 2        \* one-second ticks a reporter may take
MaxTextLen == 2      \* length of a recognized text
MaxClock == 2        \* distinct wall-clock seconds time.strftime may report
MaxStdoutLen == 2    \* length of ffprobe's standard output

----------------------------------------------------------------------------
(* Program constants *)

bar_width == 30
MB == 1024 * 1024

AUDIO_EXTENSIONS ==
    { <<".", "w", "a", "v">>, <<".", "m", "p", "3">>, <<".", "m", "4", "a">>,
      <<".", "f", "l", "a", "c">>, <<".", "o", "g", "g">>,
      <<".", "w", "e", "b", "m">>, <<".", "o", "p", "u", "s">> }

PROCESS_RATIO == <<2, 5>>

TXT == <<".", "t", "x", "t">>

----------------------------------------------------------------------------
(* Rationals *)

RECURSIVE Gcd(_, _)
Gcd(a, b) == IF b = 0 THEN a ELSE Gcd(b, a % b)

Abs(n) == IF n < 0 THEN -n ELSE n

Rat(n, d) ==
    LET g == Gcd(Abs(n), d) IN IF n = 0 THEN <<0, 1>> ELSE <<n \div g, d \div g>>

RatMul(x, y) == Rat(x[1] * y[1], x[2] * y[2])

RatLess(x, y) == x[1] * y[2] < y[1] * x[2]

RatMin(x, y) == IF RatLess(y, x) THEN y ELSE x

\* int(x) of a non-negative rational
RatInt(x) == x[1] \div x[2]

----------------------------------------------------------------------------
(* Strings as sequences of characters *)

Code(c) ==
    CASE c = " " -> 32 [] c = "." -> 46 [] c = "2" -> 50 [] c = "3" -> 51
      [] c = "4" -> 52 [] c = "M" -> 77 [] c = "P" -> 80 [] c = "_" -> 95
      [] c = "a" -> 97 [] c = "b" -> 98 [] c = "h" -> 104 [] c = "m" -> 109
      [] c = "p" -> 112 [] c = "t" -> 116 [] c = "v" -> 118 [] c = "w" -> 119
      [] c = "x" -> 120 [] OTHER -> 200

\* str.lower(), one character
LowerChar(c) == CASE c = "M" -> "m" [] c = "P" -> "p" [] OTHER -> c

Lower(s) == [k \in 1..Len(s) |-> LowerChar(s[k])]

\* s < t, as Python compares strings
RECURSIVE StrLess(_, _)
StrLess(s, t) ==
    IF t = <<>> THEN FALSE
    ELSE IF s = <<>> THEN TRUE
    ELSE IF Code(Head(s)) # Code(Head(t)) THEN Code(Head(s)) < Code(Head(t))
    ELSE StrLess(Tail(s), Tail(t))

\* position of the last "." of a name that starts a suffix, 0 if none
\* (pathlib: a leading dot or a trailing dot starts no suffix)
LastDot(name) ==
    LET dots == {k \in 2..(Len(name) - 1) : name[k] = "."}
    IN IF dots = {} THEN 0 ELSE CHOOSE k \in dots : \A j \in dots : j <= k

\* Path.suffix
PathSuffix(name) ==
    IF LastDot(name) = 0 THEN <<>> ELSE SubSeq(name, LastDot(name), Len(name))

\* Path.stem
PathStem(name) ==
    IF LastDot(name) = 0 THEN name ELSE SubSeq(name, 1, LastDot(name) - 1)

IsSpace(c) == c = " "

\* str.strip()
RECURSIVE LStrip(_)
LStrip(s) == IF s # <<>> /\ IsSpace(Head(s)) THEN LStrip(Tail(s)) ELSE s

RECURSIVE RStrip(_)
RStrip(s) ==
    IF s # <<>> /\ IsSpace(s[Len(s)]) THEN RStrip(SubSeq(s, 1, Len(s) - 1)) ELSE s

Strip(s) == RStrip(LStrip(s))

\* len(s.split()): the number of maximal runs of non-space characters
WordCount(s) ==
    Cardinality({k \in 1..Len(s) :
                    /\ ~IsSpace(s[k])
                    /\ (k = 1 \/ IsSpace(s[k - 1]))})

\* all sequences over S of length at most n
SeqsUpTo(S, n) == UNION {[1..k -> S] : k \in 0..n}

----------------------------------------------------------------------------
(* Directories as functions from the names present to what they hold *)

EmptyDir == [n \in {} |-> 0]

Put(dir, n, v) == [m \in DOMAIN dir \cup {n} |-> IF m = n THEN v ELSE dir[m]]

Remove(dir, n) == [m \in DOMAIN dir \ {n} |-> dir[m]]

----------------------------------------------------------------------------
(* format_time *)

\* divmod(int(seconds), 60), each part then printed with at least two digits
format_time(seconds) ==
    [mins |-> RatInt(seconds) \div 60, secs |-> RatInt(seconds) % 60]

----------------------------------------------------------------------------
(* notify *)

\* what the osascript subprocess can do
NotifyOutcomes == {"delivered", "nonzero_exit", "launch_failed"}

\* subprocess.run without check=True returns whatever the exit status is,
\* and raises FileNotFoundError / OSError when the binary cannot be started;
\* notify has no try/except around it
notify(outcome) == [raised |-> outcome = "launch_failed"]

----------------------------------------------------------------------------
(* get_audio_duration *)

StdoutChars == {"0", "2", ".", " ", "x"}

DigitVal(c) == CASE c = "2" -> 2 [] c = "3" -> 3 [] c = "4" -> 4 [] OTHER -> 0

IsDigit(c) == c \in {"0", "2", "3", "4"}

\* what the ffprobe subprocess can do: not start at all, or exit with some
\* status having printed some text
ProbeOutcomes ==
    {[launched |-> FALSE, rc |-> 1, stdout |-> <<>>]} \cup
    [launched : {TRUE}, rc : {0, 1}, stdout : SeqsUpTo(StdoutChars, MaxStdoutLen)]

\* float() accepts s: after stripping, digits with at most one "." and at
\* least one digit (signs, exponents, inf/nan are outside StdoutChars)
FloatParses(s) ==
    LET t == Strip(s) IN
    /\ t # <<>>
    /\ \A k \in 1..Len(t) : IsDigit(t[k]) \/ t[k] = "."
    /\ Cardinality({k \in 1..Len(t) : t[k] = "."}) <= 1
    /\ \E k \in 1..Len(t) : IsDigit(t[k])

RECURSIVE DigitsValue(_)
DigitsValue(t) ==
    IF t = <<>> THEN 0
    ELSE 10 * DigitsValue(SubSeq(t, 1, Len(t) - 1)) + DigitVal(t[Len(t)])

RECURSIVE Pow10(_)
Pow10(n) == IF n = 0 THEN 1 ELSE 10 * Pow10(n - 1)

\* float(s) for an s that parses
FloatValue(s) ==
    LET t == Strip(s)
        dots == {k \in 1..Len(t) : t[k] = "."}
        dot == IF dots = {} THEN Len(t) + 1 ELSE CHOOSE k \in dots : TRUE
        digits == SelectSeq(t, IsDigit)
    IN Rat(DigitsValue(digits), Pow10(Len(t) + 1 - dot - (IF dots = {} THEN 0 ELSE 1)))

\* the body of the try: subprocess.run, then float(result.stdout.strip())
ProbeTry(size, outcome) ==
    IF ~outcome.launched THEN [raised |-> TRUE, val |-> <<0, 1>>]
    ELSE IF ~FloatParses(outcome.stdout) THEN [raised |-> TRUE, val |-> <<0, 1>>]
    ELSE [raised |-> FALSE, val |-> FloatValue(outcome.stdout)]

\* the except branch: file size in MB, times 6
ProbeFallback(size) == RatMul(Rat(size, MB), <<6, 1>>)

\* variant without the except branch, for testing C5
get_audio_duration_NoExcept(size, outcome) == ProbeTry(size, outcome)

get_audio_duration(size, outcome) ==
    LET t == ProbeTry(size, outcome) IN
    IF t.raised THEN [raised |-> FALSE, val |-> ProbeFallback(size)] ELSE t

----------------------------------------------------------------------------
(* show_progress_bar: what one pass of the loop and the final state write *)

\* a line on standard output: who wrote what
Line(kind, filled, percent, spin, time) ==
    [kind |-> kind, filled |-> filled, percent |-> percent, spin |-> spin,
     time |-> time]

\* line 86: the whole bar, and the count of passes
FinalLine(idx) == Line("final", bar_width, 0, 0, format_time(<<idx, 1>>))

\* variant without the 0.99 cap, for testing C8
Progress_NoCap(elapsed, estimated_seconds) ==
    Rat(elapsed * estimated_seconds[2], estimated_seconds[1])

\* min(elapsed / estimated_seconds, 0.99)
Progress(elapsed, estimated_seconds) ==
    RatMin(Rat(elapsed * estimated_seconds[2], estimated_seconds[1]), <<99, 100>>)

LoopLine(idx, estimated_seconds) ==
    IF RatLess(<<0, 1>>, estimated_seconds)
    THEN LET progress == Progress(idx, estimated_seconds) IN
         Line("bar", RatInt(RatMul(<<bar_width, 1>>, progress)),
              RatInt(RatMul(progress, <<100, 1>>)), 0, format_time(<<idx, 1>>))
    ELSE Line("spinner", 0, 0, idx % 10, format_time(<<idx, 1>>))

\* a line printed by main: the banner and listing, the save line (168), the
\* archive line (178), the summary
MainLine(kind) == Line(kind, 0, 0, 0, format_time(<<0, 1>>))

----------------------------------------------------------------------------
(* discovery *)

\* sorted(...)
RECURSIVE Sorted(_)
Sorted(S) ==
    IF S = {} THEN <<>>
    ELSE LET m == CHOOSE x \in S : \A y \in S \ {x} : StrLess(x, y)
         IN <<m>> \o Sorted(S \ {m})

\* [f for f in AUDIO_DIR.iterdir() if f.suffix.lower() in AUDIO_EXTENSIONS]
Supported(dir) == {n \in DOMAIN dir : Lower(PathSuffix(n)) \in AUDIO_EXTENSIONS}

----------------------------------------------------------------------------
(* The environment: files the user drops into audio/, what the engine     *)
(* recognizes, what the wall clock reads                                   *)

InputNames ==
    { <<"a", ".", "M", "P", "3">>, <<"a", ".", "w", "a", "v">>,
      <<"b", ".", "w", "a", "v">>, <<"a", ".", "t", "x", "t">> }

\* st_size of a dropped file, in bytes
Sizes == {MB \div 2}

\* a file is its identity (the run and the name it was dropped under) and
\* its size
FileOf(r, name, size) == [id |-> <<r, name>>, size |-> size]

\* the ways of adding files under some of `names` not yet in dir, in run r
DropsOf(names, dir, r) ==
    UNION {{[n \in S |-> FileOf(r, n, zs[n])] : zs \in [S -> Sizes]} :
              S \in SUBSET (names \ DOMAIN dir)}

Drops(dir, r) == DropsOf(InputNames, dir, r)

Merge(dir, drop) ==
    [n \in DOMAIN dir \cup DOMAIN drop |-> IF n \in DOMAIN drop THEN drop[n] ELSE dir[n]]

\* result["text"]
Texts == SeqsUpTo({" ", "h"}, MaxTextLen)

\* time.strftime("%Y%m%d_%H%M%S"): local time, one-second granularity, not
\* monotonic; each value stands for one such 15-character string
StampTable == <<"T1", "T2", "T3", "T4", "T5">>
Timestamps == {StampTable[t] : t \in 1..MaxClock}

----------------------------------------------------------------------------
(* Initial state: the first invocation, nothing archived or written yet *)

NoResult == <<"-">>

FreshRun ==
    /\ pc = "discover"
    /\ audio_files = <<>>
    /\ found = EmptyDir
    /\ i = 0
    /\ modelLoaded = FALSE
    /\ notes = <<>>
    /\ error = "none"
    /\ est = <<0, 1>>
    /\ reporter = <<>>
    /\ stop = <<>>
    /\ setCount = <<>>
    /\ inflight = 0
    /\ result = NoResult
    /\ texts = <<>>
    /\ results = <<>>
    /\ wrote = {}
    /\ moved = {}
    /\ screen = MainLine("start")

ProbeIdle == [phase |-> "idle", size |-> 0,
              outcome |-> [launched |-> FALSE, rc |-> 1, stdout |-> <<>>],
              ret |-> [raised |-> FALSE, val |-> <<0, 1>>]]

Init ==
    /\ run = 1
    /\ audioDir \in Drops(EmptyDir, 1)
    /\ outDir = EmptyDir
    /\ histDir = EmptyDir
    /\ placed = {}
    /\ FreshRun
    /\ probe = ProbeIdle

----------------------------------------------------------------------------
(* main(), the main thread *)

\* an exception leaves main: the interpreter exits, and a daemon thread
\* still running is killed with it
Crash(cause) ==
    /\ pc' = "crashed"
    /\ error' = cause
    /\ reporter' = [k \in DOMAIN reporter |->
                      IF reporter[k].state = "running"
                      THEN [reporter[k] EXCEPT !.state = "killed"]
                      ELSE reporter[k]]

\* lines 96-104, the test of line 106, and lines 114-117
Discover ==
    /\ pc = "discover"
    /\ audio_files' = Sorted(Supported(audioDir))
    /\ found' = [n \in Supported(audioDir) |-> audioDir[n]]
    /\ i' = 1
    /\ pc' = IF audio_files' = <<>> THEN "no_files" ELSE "listing"
    /\ screen' = IF audio_files' = <<>> THEN screen ELSE MainLine("banner")
    /\ UNCHANGED <<run, dirs, modelLoaded, notes, error, est, threads,
                   inflight, result, texts, results, wrote, moved, probe>>

\* a call of notify at one of its three call sites, then `next`
NotifyAt(site, outcome, next) ==
    /\ notes' = Append(notes, site)
    /\ IF notify(outcome).raised
       THEN Crash("notify") /\ UNCHANGED <<stop, setCount>>
       ELSE pc' = next /\ UNCHANGED <<error, threads>>

\* lines 107-112
NotifyNoFiles(outcome) ==
    /\ pc = "no_files"
    /\ screen' = MainLine("no_files")
    /\ NotifyAt("no_files", outcome, "done")
    /\ UNCHANGED <<run, dirs, audio_files, found, i, modelLoaded, est,
                   inflight, result, texts, results, wrote, moved, probe>>

\* lines 119-122, one pass of the listing loop
ListFile(outcome) ==
    /\ pc = "listing"
    /\ LET d == get_audio_duration(audioDir[audio_files[i]].size, outcome) IN
       IF d.raised
       THEN Crash("probe") /\ i' = i /\ screen' = screen
                           /\ UNCHANGED <<stop, setCount>>
       ELSE /\ UNCHANGED <<error, threads>>
            /\ screen' = MainLine("listing")
            /\ IF i < Len(audio_files)
               THEN i' = i + 1 /\ pc' = "listing"
               ELSE i' = 0 /\ pc' = "load"
    /\ UNCHANGED <<run, dirs, audio_files, found, modelLoaded, notes, est,
                   inflight, result, texts, results, wrote, moved, probe>>

\* lines 125-127
LoadModel ==
    /\ pc = "load"
    /\ modelLoaded' = TRUE
    /\ screen' = MainLine("model")
    /\ pc' = "notify_start"
    /\ UNCHANGED <<run, dirs, audio_files, found, i, notes, error, est,
                   threads, inflight, result, texts, results, wrote, moved,
                   probe>>

\* lines 129-132, and the entry into the loop of line 134
NotifyStart(outcome) ==
    /\ pc = "notify_start"
    /\ NotifyAt("start", outcome, "probe")
    /\ i' = 1
    /\ UNCHANGED <<run, dirs, audio_files, found, modelLoaded, est, inflight,
                   result, texts, results, wrote, moved, screen, probe>>

\* lines 135-140
ProbeFile(outcome) ==
    /\ pc = "probe"
    /\ LET d == get_audio_duration(audioDir[audio_files[i]].size, outcome) IN
       IF d.raised
       THEN Crash("probe") /\ est' = est /\ screen' = screen
                           /\ UNCHANGED <<stop, setCount>>
       ELSE /\ est' = RatMul(d.val, PROCESS_RATIO)
            /\ screen' = MainLine("header")
            /\ pc' = "start"
            /\ UNCHANGED <<error, threads>>
    /\ UNCHANGED <<run, dirs, audio_files, found, i, modelLoaded, notes,
                   inflight, result, texts, results, wrote, moved, probe>>

\* lines 143-151: a new Event, a new daemon thread with the estimate as its
\* argument, started; main does not read the estimate again
StartReporter ==
    /\ pc = "start"
    /\ stop' = Append(stop, FALSE)
    /\ setCount' = Append(setCount, 0)
    /\ reporter' = Append(reporter,
                          [state |-> "running", idx |-> 0, est |-> est,
                           finals |-> 0])
    /\ est' = <<0, 1>>
    /\ pc' = "call"
    /\ UNCHANGED <<run, dirs, audio_files, found, i, modelLoaded, notes,
                   error, inflight, result, texts, results, wrote, moved,
                   screen, probe>>

\* line 154, entering model.transcribe
TranscribeCall ==
    /\ pc = "call"
    /\ inflight' = inflight + 1
    /\ pc' = "transcribing"
    /\ UNCHANGED <<run, dirs, audio_files, found, i, modelLoaded, notes,
                   error, est, threads, result, texts, results, wrote, moved,
                   screen, probe>>

\* line 154, model.transcribe returns
TranscribeReturn(text) ==
    /\ pc = "transcribing"
    /\ inflight' = inflight - 1
    /\ result' = text
    /\ pc' = "set"
    /\ UNCHANGED <<run, dirs, audio_files, found, i, modelLoaded, notes,
                   error, est, threads, texts, results, wrote, moved, screen,
                   probe>>

\* line 154, model.transcribe raises: nothing in main catches it
TranscribeRaise ==
    /\ pc = "transcribing"
    /\ inflight' = inflight - 1
    /\ Crash("transcribe")
    /\ UNCHANGED <<run, dirs, audio_files, found, i, modelLoaded, notes, est,
                   stop, setCount, result, texts, results, wrote, moved,
                   screen, probe>>

\* line 156
SetStop ==
    /\ pc = "set"
    /\ stop' = [stop EXCEPT ![i] = TRUE]
    /\ setCount' = [setCount EXCEPT ![i] = IF stop[i] THEN @ ELSE @ + 1]
    /\ pc' = "join"
    /\ UNCHANGED <<run, dirs, audio_files, found, i, modelLoaded, notes,
                   error, est, reporter, inflight, result, texts, results,
                   wrote, moved, screen, probe>>

\* variant that does not wait for the thread, for testing C7
JoinNoWait ==
    /\ pc = "join"
    /\ pc' = "write"
    /\ UNCHANGED <<run, dirs, audio_files, found, i, modelLoaded, notes,
                   error, est, threads, inflight, result, texts, results,
                   wrote, moved, screen, probe>>

\* lines 157-160: returns once the thread has ended
Join ==
    /\ pc = "join"
    /\ reporter[i].state # "running"
    /\ pc' = "write"
    /\ UNCHANGED <<run, dirs, audio_files, found, i, modelLoaded, notes,
                   error, est, threads, inflight, result, texts, results,
                   wrote, moved, screen, probe>>

\* lines 163-168; result is not read again
WriteOutput ==
    /\ pc = "write"
    /\ LET output_file == PathStem(audio_files[i]) \o TXT
           text == Strip(result)
       IN /\ outDir' = Put(outDir, output_file, text)
          /\ texts' = Append(texts, text)
    /\ result' = NoResult
    /\ wrote' = wrote \cup {i}
    /\ screen' = MainLine("save")
    /\ pc' = "move"
    /\ UNCHANGED <<run, audioDir, histDir, placed, audio_files, found, i,
                   modelLoaded, notes, error, est, threads, inflight, results,
                   moved, probe>>

\* lines 171-175: the name the file is moved to
HistoricalName(name, dir, timestamp) ==
    IF name \in DOMAIN dir
    THEN PathStem(name) \o <<"_", timestamp>> \o PathSuffix(name)
    ELSE name

\* variant that copies and leaves the source in place, for testing C1
MoveToHistorical_Copy(timestamp) ==
    /\ pc = "move"
    /\ LET audio_file == audio_files[i]
           historical_file == HistoricalName(audio_file, histDir, timestamp)
       IN /\ histDir' = Put(histDir, historical_file, audioDir[audio_file])
          /\ audioDir' = audioDir
          /\ placed' = placed \cup {<<historical_file, audioDir[audio_file]>>}
          /\ results' = Append(results,
                               [name |-> PathStem(audio_file),
                                words |-> WordCount(texts[i])])
    /\ moved' = moved \cup {i}
    /\ screen' = MainLine("archive")
    /\ IF i < Len(audio_files)
       THEN i' = i + 1 /\ pc' = "probe"
       ELSE i' = i /\ pc' = "summary"
    /\ UNCHANGED <<run, outDir, audio_files, found, modelLoaded, notes, error,
                   est, threads, inflight, result, texts, wrote, probe>>

\* lines 171-184: shutil.move renames onto the target, replacing a file
\* already there; then the next pass of the loop, or the summary
MoveToHistorical(timestamp) ==
    /\ pc = "move"
    /\ LET audio_file == audio_files[i]
           historical_file == HistoricalName(audio_file, histDir, timestamp)
       IN /\ histDir' = Put(histDir, historical_file, audioDir[audio_file])
          /\ audioDir' = Remove(audioDir, audio_file)
          /\ placed' = placed \cup {<<historical_file, audioDir[audio_file]>>}
          /\ results' = Append(results,
                               [name |-> PathStem(audio_file),
                                words |-> WordCount(texts[i])])
    /\ moved' = moved \cup {i}
    /\ screen' = MainLine("archive")
    /\ IF i < Len(audio_files)
       THEN i' = i + 1 /\ pc' = "probe"
       ELSE i' = i /\ pc' = "summary"
    /\ UNCHANGED <<run, outDir, audio_files, found, modelLoaded, notes, error,
                   est, threads, inflight, result, texts, wrote, probe>>

\* lines 187-203
NotifyFinal(outcome) ==
    /\ pc = "summary"
    /\ screen' = MainLine("summary")
    /\ NotifyAt("final", outcome, "open")
    /\ UNCHANGED <<run, dirs, audio_files, found, i, modelLoaded, est,
                   inflight, result, texts, results, wrote, moved, probe>>

\* what the `open` subprocess can do
OpenOutcomes == {"opened", "nonzero_exit", "launch_failed"}

\* line 206: subprocess.run again, with nothing around it
OpenFolder(outcome) ==
    /\ pc = "open"
    /\ IF outcome = "launch_failed"
       THEN Crash("open") /\ UNCHANGED <<stop, setCount>>
       ELSE pc' = "done" /\ UNCHANGED <<error, threads>>
    /\ UNCHANGED <<run, dirs, audio_files, found, i, modelLoaded, notes, est,
                   inflight, result, texts, results, wrote, moved, screen,
                   probe>>

----------------------------------------------------------------------------
(* show_progress_bar, the reporter thread of file k.  One pass of the loop *)
(* is one step: between its test of the flag and its write the main thread *)
(* can only set the flag, which the pass does not read again.              *)

Alive == pc \notin {"done", "crashed"}

\* lines 64-82: the flag is not set; write a line, sleep a second, count
ReporterTick(k) ==
    /\ Alive
    /\ reporter[k].state = "running"
    /\ ~stop[k]
    /\ reporter[k].idx < MaxTicks
    /\ screen' = LoopLine(reporter[k].idx, reporter[k].est)
    /\ reporter' = [reporter EXCEPT ![k].idx = @ + 1]
    /\ UNCHANGED <<run, pc, dirs, audio_files, found, i, modelLoaded, notes,
                   error, est, stop, setCount, inflight, result, texts,
                   results, wrote, moved, probe>>

\* variant that clears the flag on its way out, for testing C9
ReporterFinish_Clear(k) ==
    /\ Alive
    /\ reporter[k].state = "running"
    /\ stop[k]
    /\ screen' = FinalLine(reporter[k].idx)
    /\ reporter' = [reporter EXCEPT
                      ![k] = [state |-> "done", idx |-> 0, est |-> <<0, 1>>,
                              finals |-> @.finals + 1]]
    /\ stop' = [stop EXCEPT ![k] = FALSE]
    /\ UNCHANGED <<run, pc, dirs, audio_files, found, i, modelLoaded, notes,
                   error, est, setCount, inflight, result, texts, results,
                   wrote, moved, probe>>

\* variant that writes the final line twice, for testing C10
ReporterFinish_Twice(k) ==
    /\ Alive
    /\ reporter[k].state = "running"
    /\ stop[k]
    /\ screen' = FinalLine(reporter[k].idx)
    /\ reporter' = [reporter EXCEPT
                      ![k] = [state |-> "done", idx |-> 0, est |-> <<0, 1>>,
                              finals |-> @.finals + 2]]
    /\ UNCHANGED <<run, pc, dirs, audio_files, found, i, modelLoaded, notes,
                   error, est, stop, setCount, inflight, result, texts,
                   results, wrote, moved, probe>>

\* lines 64 and 84-88: the flag is set; write the final line and return,
\* which ends the thread and its locals
ReporterFinish(k) ==
    /\ Alive
    /\ reporter[k].state = "running"
    /\ stop[k]
    /\ screen' = FinalLine(reporter[k].idx)
    /\ reporter' = [reporter EXCEPT
                      ![k] = [state |-> "done", idx |-> 0, est |-> <<0, 1>>,
                              finals |-> @.finals + 1]]
    /\ UNCHANGED <<run, pc, dirs, audio_files, found, i, modelLoaded, notes,
                   error, est, stop, setCount, inflight, result, texts,
                   results, wrote, moved, probe>>

----------------------------------------------------------------------------
(* The user runs the script again, perhaps after adding files to audio/ *)

NewRun(drop) ==
    /\ ~Alive
    /\ run < MaxRuns
    /\ run' = run + 1
    /\ audioDir' = Merge(audioDir, drop)
    /\ pc' = "discover"
    /\ audio_files' = <<>>
    /\ found' = EmptyDir
    /\ i' = 0
    /\ modelLoaded' = FALSE
    /\ notes' = <<>>
    /\ error' = "none"
    /\ est' = <<0, 1>>
    /\ reporter' = <<>>
    /\ stop' = <<>>
    /\ setCount' = <<>>
    /\ inflight' = 0
    /\ result' = NoResult
    /\ texts' = <<>>
    /\ results' = <<>>
    /\ wrote' = {}
    /\ moved' = {}
    /\ screen' = MainLine("start")
    /\ UNCHANGED <<outDir, histDir, placed, probe>>

Next ==
    \/ Discover
    \/ \E o \in NotifyOutcomes : NotifyNoFiles(o)
    \/ \E o \in ProbeOutcomes : ListFile(o)
    \/ LoadModel
    \/ \E o \in NotifyOutcomes : NotifyStart(o)
    \/ \E o \in ProbeOutcomes : ProbeFile(o)
    \/ StartReporter
    \/ TranscribeCall
    \/ \E text \in Texts : TranscribeReturn(text)
    \/ TranscribeRaise
    \/ SetStop
    \/ Join
    \/ WriteOutput
    \/ \E t \in Timestamps : MoveToHistorical(t)
    \/ \E o \in NotifyOutcomes : NotifyFinal(o)
    \/ \E o \in OpenOutcomes : OpenFolder(o)
    \/ \E k \in DOMAIN reporter : ReporterTick(k)
    \/ \E k \in DOMAIN reporter : ReporterFinish(k)

Spec == Init /\ [][Next]_vars

----------------------------------------------------------------------------
(* The script run again and again over a narrow environment: two names,   *)
(* one recognized text, one answer from ffprobe                            *)

RunNames == { <<"a", ".", "M", "P", "3">>, <<"a", ".", "w", "a", "v">> }

RunDrops(dir, r) == DropsOf(RunNames, dir, r)

RunProbeOutcomes == {[launched |-> TRUE, rc |-> 0, stdout |-> <<"2">>]}

RunTexts == {<<"h">>}

InitRuns ==
    /\ run = 1
    /\ audioDir \in RunDrops(EmptyDir, 1)
    /\ outDir = EmptyDir
    /\ histDir = EmptyDir
    /\ placed = {}
    /\ FreshRun
    /\ probe = ProbeIdle

NextRuns ==
    \/ Discover
    \/ \E o \in NotifyOutcomes : NotifyNoFiles(o)
    \/ \E o \in RunProbeOutcomes : ListFile(o)
    \/ LoadModel
    \/ \E o \in NotifyOutcomes : NotifyStart(o)
    \/ \E o \in RunProbeOutcomes : ProbeFile(o)
    \/ StartReporter
    \/ TranscribeCall
    \/ \E text \in RunTexts : TranscribeReturn(text)
    \/ TranscribeRaise
    \/ SetStop
    \/ Join
    \/ WriteOutput
    \/ \E t \in Timestamps : MoveToHistorical(t)
    \/ \E o \in NotifyOutcomes : NotifyFinal(o)
    \/ \E o \in OpenOutcomes : OpenFolder(o)
    \/ \E k \in DOMAIN reporter : ReporterTick(k)
    \/ \E k \in DOMAIN reporter : ReporterFinish(k)
    \/ \E drop \in RunDrops(audioDir, run + 1) : NewRun(drop)

SpecRuns == InitRuns /\ [][NextRuns]_vars

----------------------------------------------------------------------------
(* get_audio_duration on its own: every file size against every outcome of *)
(* the ffprobe subprocess                                                  *)

ProbeSizes == Sizes \cup {0, 1, 3 * MB}

InitProbe ==
    /\ run = 1
    /\ audioDir = EmptyDir
    /\ outDir = EmptyDir
    /\ histDir = EmptyDir
    /\ placed = {}
    /\ FreshRun
    /\ probe = ProbeIdle

ProbeCall(size, outcome) ==
    /\ probe.phase # "called"
    /\ probe' = [phase |-> "called", size |-> size, outcome |-> outcome,
                 ret |-> ProbeIdle.ret]
    /\ UNCHANGED mainVars

ProbeReturn ==
    /\ probe.phase = "called"
    /\ probe' = [probe EXCEPT !.phase = "returned",
                              !.ret = get_audio_duration(probe.size, probe.outcome)]
    /\ UNCHANGED mainVars

NextProbe ==
    \/ \E size \in ProbeSizes, o \in ProbeOutcomes : ProbeCall(size, o)
    \/ ProbeReturn

SpecProbe == InitProbe /\ [][NextProbe]_vars

----------------------------------------------------------------------------
(* Properties *)

OutputName(name) == PathStem(name) \o TXT

Terminated == pc \in {"done", "crashed"}

\* C1: when model.transcribe raises on file k of N, files 1..k-1 have their
\* output file written and their original in historical/ and gone from
\* audio/, no output was written for file k, and files k..N are in audio/
\* as they were discovered.
C1_FatalErrorLeavesPrefixProcessed ==
    (pc = "crashed" /\ error = "transcribe") =>
        /\ \A j \in 1..(i - 1) :
              /\ j \in wrote
              /\ OutputName(audio_files[j]) \in DOMAIN outDir
              /\ audio_files[j] \notin DOMAIN audioDir
              /\ \E h \in DOMAIN histDir : histDir[h] = found[audio_files[j]]
        /\ i \notin wrote
        /\ Len(texts) = i - 1
        /\ \A j \in i..Len(audio_files) :
              /\ j \notin moved
              /\ audio_files[j] \in DOMAIN audioDir
              /\ audioDir[audio_files[j]] = found[audio_files[j]]
              /\ \A h \in DOMAIN histDir : histDir[h] # found[audio_files[j]]

\* C1 witness: a later run, two files found, the second one's transcription
\* raised after the first was archived under a timestamped name
C1_Witness ==
    /\ pc = "crashed" /\ error = "transcribe"
    /\ run > 1 /\ i = 2 /\ Len(audio_files) = 2
    /\ \E h \in DOMAIN histDir :
          histDir[h] = found[audio_files[1]] /\ h # audio_files[1]

\* C2: every file ever moved into historical/ is still there, under the
\* name it was moved to, with its content.
C2_ArchiveNeverOverwritten ==
    \A e \in placed : e[1] \in DOMAIN histDir /\ histDir[e[1]] = e[2]

\* C3: after a run that completes normally, every discovered input has
\* <stem>.txt in transcriptions/ holding its own stripped text.
C3_OneTextFilePerInput ==
    (pc = "done" /\ audio_files # <<>>) =>
        \A j \in 1..Len(audio_files) :
            /\ OutputName(audio_files[j]) \in DOMAIN outDir
            /\ outDir[OutputName(audio_files[j])] = texts[j]

\* C4: no outcome of the notification subprocess, at any of the three call
\* sites, ends the run.
C4_NotifyNeverAborts == error # "notify"

C6_NoFilesShortCircuit ==
    (Terminated /\ audio_files = <<>>) =>
        /\ pc = "done" /\ error = "none"
        /\ ~modelLoaded
        /\ reporter = <<>> /\ inflight = 0
        /\ notes = <<"no_files">>
        /\ wrote = {} /\ moved = {}
        /\ outDir = EmptyDir /\ histDir = EmptyDir

\* C7: at most one reporter thread is running and at most one
\* model.transcribe call is in flight; every reporter but the latest has
\* ended.
C7_OneReporterOneTranscription ==
    /\ Cardinality({k \in DOMAIN reporter : reporter[k].state = "running"}) <= 1
    /\ inflight <= 1
    /\ \A k \in DOMAIN reporter : k < Len(reporter) => reporter[k].state = "done"

\* C7 witness: the second file's reporter runs during its transcription
C7_Witness ==
    /\ Len(reporter) = 2
    /\ reporter[2].state = "running"
    /\ reporter[1].state = "done"
    /\ inflight = 1

\* the elapsed seconds a progress line shows
ShownSeconds(line) == line.time.mins * 60 + line.time.secs

\* C8: a bar line shows min(elapsed/estimated, 0.99): at most 99 percent and
\* at most 29 of 30 cells, whatever the elapsed count; the final line shows
\* 30 cells.
C8_BarCappedUntilStop ==
    /\ screen.kind = "bar" =>
          /\ screen.percent <= 99
          /\ screen.filled <= bar_width - 1
          /\ \A k \in DOMAIN reporter :
                reporter[k].state = "running" =>
                    LET e == ShownSeconds(screen)
                        n == reporter[k].est[1]
                        d == reporter[k].est[2]
                    IN /\ n > 0
                       /\ IF 100 * e * d >= 99 * n
                          THEN screen.percent = 99 /\ screen.filled = 29
                          ELSE /\ screen.percent = (100 * e * d) \div n
                               /\ screen.filled = (bar_width * e * d) \div n
    /\ screen.kind = "final" => screen.filled = bar_width

\* C8 witness: a bar line written when the elapsed count is past the estimate
C8_Witness ==
    /\ screen.kind = "bar"
    /\ screen.percent = 99
    /\ \E k \in DOMAIN reporter :
          /\ reporter[k].state = "running"
          /\ ShownSeconds(screen) * reporter[k].est[2] > reporter[k].est[1]

\* file k's transcription returned and main has passed line 156
Signalled(k) ==
    \/ k < i
    \/ k = i /\ pc \in {"join", "write", "move", "summary", "open", "done"}
    \/ k = i /\ pc = "crashed" /\ error \in {"notify", "open"}

\* C9 as stated: once the run has ended, the flag of every file whose
\* reporter was started has been set exactly once.
C9_SetExactlyOnceEveryExecution ==
    Terminated => \A k \in DOMAIN reporter : setCount[k] = 1 /\ stop[k]

\* C9 amended: a file's flag is set at most once and never cleared; it has
\* been set exactly once when the transcription returned and main passed
\* line 156, and is never set when the transcription raised.
C9_StopFlagOneShot ==
    \A k \in DOMAIN reporter :
        /\ setCount[k] <= 1
        /\ stop[k] <=> setCount[k] = 1
        /\ Signalled(k) <=> setCount[k] = 1
        /\ (pc = "crashed" /\ error = "transcribe" /\ k = i) => setCount[k] = 0

\* C9 witness: the second file's transcription raised; the first flag was
\* set once, the second never
C9_Witness ==
    /\ pc = "crashed" /\ error = "transcribe"
    /\ i = 2
    /\ setCount = <<1, 0>>
    /\ stop = <<TRUE, FALSE>>

\* C10: when main writes the output, prints the save and archive lines and
\* moves the source, the file's reporter has written exactly one final line
\* and ended, and nothing is written over main's lines.
C10_ReporterDoneBeforeOutput ==
    /\ \A k \in DOMAIN reporter :
          (k < i \/ (k = i /\ pc \in {"write", "move", "summary", "open", "done"})) =>
              reporter[k].state = "done" /\ reporter[k].finals = 1
    /\ pc = "write" => screen.kind = "final"
    /\ pc = "move" => screen.kind = "save"
    /\ (pc = "probe" /\ i > 1) => screen.kind = "archive"
    /\ pc = "summary" => screen.kind = "archive"
    /\ (pc \in {"open", "done"} /\ audio_files # <<>>) => screen.kind = "summary"

\* C10 witness: the second file's output is written, its reporter done
C10_Witness ==
    /\ pc = "move" /\ i = 2
    /\ screen.kind = "save"
    /\ reporter[2].state = "done" /\ reporter[2].finals = 1

====
